---- MODULE Spec2Model ----
(***************************************************************************)
(* Model of libevmasm/Inliner.cpp: the block extractor                     *)
(* (determineInlinableBlocks), the candidate filter (isInlineCandidate),   *)
(* the cost model (shouldInline) and the rewrite loop (optimise).          *)
(*                                                                         *)
(* Sequences are 1-based here; the source's 0-based index i is i+1 below.  *)
(* Fixed-width C++ integers (unsigned, size_t, uint64_t) and bigint are    *)
(* modelled as little-endian sequences of base-256 digits without leading  *)
(* zero digits, so that 64-bit wrap-around is represented exactly.         *)
(***************************************************************************)
EXTENDS Integers, Sequences, FiniteSets, TLC

VARIABLES
    m_items,          \* Inliner::m_items, the instruction stream
    m_runs,           \* Inliner::m_runs
    pc,               \* position inside optimise(): start, scan, done, OptimizerException
    inlinableBlocks,  \* optimise()'s local map tag -> InlinableBlock
    it,               \* optimise()'s loop iterator (1-based position in m_items)
    newItems,         \* optimise()'s local output buffer
    input,            \* history: m_items as it was when optimise() was entered
    inlinedAt,        \* history: the call sites inlined so far, in order
    call,             \* a direct call of isInlineCandidate / shouldInline and its outcome
    m_vfs,            \* LanguageServer::m_vfs, uri -> opened file
    m_sourceCodes,    \* LanguageServer::m_sourceCodes, source name -> text
    m_compilerStack,  \* LanguageServer::m_compilerStack, <<>> while the pointer is null
    pushed,           \* the PublishDiagnostics handed to pushDiagnostics by the last operation
    reply,            \* the last language server operation and what it answered from
    smt               \* contract C of the SMTChecker test: position in f, memory, failed assertions

\* the state of the Inliner and of the calls into it
inlinerVars ==
    <<m_items, m_runs, pc, inlinableBlocks, it, newItems, input, inlinedAt, call>>

\* the state of the LanguageServer
lspVars ==
    <<m_vfs, m_sourceCodes, m_compilerStack, pushed, reply>>

\* the state of a call of C.f
testVars ==
    <<smt>>

vars ==
    <<m_items, m_runs, pc, inlinableBlocks, it, newItems, input, inlinedAt, call,
      m_vfs, m_sourceCodes, m_compilerStack, pushed, reply, smt>>

(***************************************************************************)
(* Bounds of the model.                                                    *)
(***************************************************************************)
\* longest stream that is enumerated exhaustively over Alphabet
MaxLen ==
    4
\* largest number of call sites in the main part of a generated program
MaxCalls ==
    2
\* longest block body handed directly to isInlineCandidate / shouldInline
MaxBody ==
    3

(***************************************************************************)
(* Arbitrary-precision naturals as digit sequences.                        *)
(***************************************************************************)
RECURSIVE BigOfNat(_)
BigOfNat(n) ==
    IF n = 0 THEN <<>> ELSE <<n % 256>> \o BigOfNat(n \div 256)

RECURSIVE NatOfBig(_)
NatOfBig(b) ==
    IF b = <<>> THEN 0 ELSE b[1] + 256 * NatOfBig(Tail(b))

RECURSIVE Norm(_)
Norm(b) ==
    IF b = <<>> THEN <<>>
    ELSE IF b[Len(b)] = 0 THEN Norm(SubSeq(b, 1, Len(b) - 1))
    ELSE b

RECURSIVE AddCarry(_, _, _)
AddCarry(a, b, c) ==
    IF a = <<>> /\ b = <<>> THEN (IF c = 0 THEN <<>> ELSE <<c>>)
    ELSE LET x == IF a = <<>> THEN 0 ELSE a[1]
             y == IF b = <<>> THEN 0 ELSE b[1]
             s == x + y + c
         IN  <<s % 256>> \o AddCarry(IF a = <<>> THEN <<>> ELSE Tail(a),
                                     IF b = <<>> THEN <<>> ELSE Tail(b),
                                     s \div 256)

BigAdd(a, b) ==
    Norm(AddCarry(a, b, 0))

RECURSIVE ScaleCarry(_, _, _)
ScaleCarry(a, d, c) ==
    IF a = <<>> THEN BigOfNat(c)
    ELSE LET s == a[1] * d + c
         IN  <<s % 256>> \o ScaleCarry(Tail(a), d, s \div 256)

RECURSIVE BigMul(_, _)
BigMul(a, b) ==
    IF a = <<>> THEN <<>>
    ELSE Norm(AddCarry(ScaleCarry(b, a[1], 0), <<0>> \o BigMul(Tail(a), b), 0))

RECURSIVE BigGreater(_, _)
BigGreater(a, b) ==
    IF Len(a) # Len(b) THEN Len(a) > Len(b)
    ELSE IF a = <<>> THEN FALSE
    ELSE IF a[Len(a)] # b[Len(b)] THEN a[Len(a)] > b[Len(b)]
    ELSE BigGreater(Norm(SubSeq(a, 1, Len(a) - 1)), Norm(SubSeq(b, 1, Len(b) - 1)))

\* the value modulo 2^(8*bytes): what a `bytes`-wide unsigned integer keeps
Wrap(b, bytes) ==
    Norm(SubSeq(b, 1, IF Len(b) < bytes THEN Len(b) ELSE bytes))

RECURSIVE AllOnes(_)
AllOnes(bytes) ==
    IF bytes = 0 THEN <<>> ELSE <<255>> \o AllOnes(bytes - 1)

RECURSIVE Borrow(_)
Borrow(b) ==
    IF b[1] > 0 THEN <<b[1] - 1>> \o Tail(b) ELSE <<255>> \o Borrow(Tail(b))

\* width in bytes of `unsigned`, the type of accumulate's initial value 0u
SizeofUnsigned ==
    4
\* width in bytes of size_t (codeSize)
SizeofSizeT ==
    8
\* width in bytes of uint64_t (pushTagCount, numPushTags)
SizeofUint64 ==
    8

\* ++ on a uint64_t
U64Inc(c) ==
    Wrap(BigAdd(c, <<1>>), SizeofUint64)

\* -- on a uint64_t: 0 wraps to 2^64 - 1
U64Dec(c) ==
    IF c = <<>> THEN AllOnes(SizeofUint64) ELSE Norm(Borrow(c))

(***************************************************************************)
(* AssemblyItem: type, instruction, data and jump type.                    *)
(***************************************************************************)
JumpType ==
    {"Ordinary", "IntoFunction", "OutOfFunction"}

TagItem(t) ==
    [type |-> "Tag", instr |-> "NONE", data |-> t, jumpType |-> "Ordinary"]

PushTagItem(t) ==
    [type |-> "PushTag", instr |-> "NONE", data |-> t, jumpType |-> "Ordinary"]

PushItem(v) ==
    [type |-> "Push", instr |-> "NONE", data |-> v, jumpType |-> "Ordinary"]

Op(i) ==
    [type |-> "Operation", instr |-> i, data |-> 0, jumpType |-> "Ordinary"]

Jump(jt) ==
    [type |-> "Operation", instr |-> "JUMP", data |-> 0, jumpType |-> jt]

\* AssemblyItem::operator==(Instruction) for Instruction::JUMP: the jump type is not compared
IsJump(item) ==
    item.type = "Operation" /\ item.instr = "JUMP"

\* AssemblyItem::setJumpType
setJumpType(item, jt) ==
    [item EXCEPT !.jumpType = jt]

\* util::bytesRequired: the number of bytes needed to hold n
RECURSIVE NumBytes(_)
NumBytes(n) ==
    IF n = 0 THEN 0 ELSE 1 + NumBytes(n \div 256)

\* AssemblyItem::bytesRequired(_addressLength)
bytesRequired(item, addressLength) ==
    CASE item.type = "Operation" -> 1
      [] item.type = "Tag" -> 1
      [] item.type = "Push" -> 1 + (IF NumBytes(item.data) < 1 THEN 1 ELSE NumBytes(item.data))
      [] item.type = "PushTag" -> 1 + addressLength

\* SemanticInformation::breaksCSEAnalysisBlock(_item, false)
breaksCSEAnalysisBlock(item) ==
    CASE item.type = "Tag" -> TRUE
      [] item.type = "Push" -> FALSE
      [] item.type = "PushTag" -> FALSE
      [] item.type = "Operation" -> item.instr \in {"JUMP", "JUMPI", "STOP"}

(***************************************************************************)
(* Inliner::isInlineCandidate                                              *)
(***************************************************************************)
isInlineCandidateAlways(_tag, _block) ==
    IF Len(_block.items) > 0 THEN "true" ELSE "OptimizerException"

isInlineCandidate(_tag, _block) ==
    IF ~(Len(_block.items) > 0) THEN "OptimizerException"
    ELSE IF \E i \in 1..Len(_block.items) :
                _block.items[i].type = "PushTag" /\ _tag = _block.items[i].data
         THEN "false"
         ELSE "true"

(***************************************************************************)
(* Inliner::determineInlinableBlocks                                       *)
(***************************************************************************)
\* ranges::views::slice(from, to) of _items, as the positions it spans (to exclusive)
SliceWithoutJump(from, to) ==
    [first |-> from, last |-> to - 2]

Slice(from, to) ==
    [first |-> from, last |-> to - 1]

\* the items a span refers to
SpanItems(items, span) ==
    SubSeq(items, span.first, span.last)

\* lines 68-73 without the reset of line 72
AfterBreakKeepingTag(lastTag, breaks) ==
    lastTag

\* line 72: lastTag.reset() inside the test of line 68
AfterBreak(lastTag, breaks) ==
    IF breaks THEN 0 ELSE lastTag

\* lines 63-64 moved inside a pending block: a PushTag counts only after a Tag
CountedPushInBlock(item, lastTag) ==
    item.type = "PushTag" /\ lastTag # 0

\* line 63: every PushTag of the stream counts, wherever it stands
CountedPush(item, lastTag) ==
    item.type = "PushTag"

\* one iteration of the scan loop; lastTag = 0 stands for the empty optional
ScanStep(_items, st, index) ==
    LET item == _items[index]
        numPushTags ==
            IF CountedPush(item, st.lastTag)
            THEN (item.data :> U64Inc(IF item.data \in DOMAIN st.numPushTags
                                      THEN st.numPushTags[item.data] ELSE <<>>))
                 @@ st.numPushTags
            ELSE st.numPushTags
        breaks == st.lastTag # 0 /\ breaksCSEAnalysisBlock(item)
        inlinableBlockItems ==
            IF breaks /\ IsJump(item)
            THEN (_items[st.lastTag].data :> Slice(st.lastTag + 1, index + 1))
                 @@ st.inlinableBlockItems
            ELSE st.inlinableBlockItems
        afterReset == AfterBreak(st.lastTag, breaks)
    IN  [inlinableBlockItems |-> inlinableBlockItems,
         numPushTags |-> numPushTags,
         lastTag |-> IF item.type = "Tag" THEN index ELSE afterReset]

RECURSIVE ScanFrom(_, _, _)
ScanFrom(_items, st, index) ==
    IF index > Len(_items) THEN st
    ELSE ScanFrom(_items, ScanStep(_items, st, index), index + 1)

ScanAll(_items) ==
    ScanFrom(_items, [inlinableBlockItems |-> <<>>, numPushTags |-> <<>>, lastTag |-> 0], 1)

\* the InlinableBlock built at line 84 for a tag that has both a span and a push count
BlockOfScan(_items, st, tag) ==
    [items |-> SpanItems(_items, st.inlinableBlockItems[tag]),
     pushTagCount |-> st.numPushTags[tag]]

\* threw: isInlineCandidate's assertion failed; blocks: the returned map,
\* each block as the span of _items it views and its pushTagCount
determineInlinableBlocks(_items) ==
    LET st == ScanAll(_items)
        counted == DOMAIN st.inlinableBlockItems \cap DOMAIN st.numPushTags
        kept == {tag \in counted : isInlineCandidate(tag, BlockOfScan(_items, st, tag)) = "true"}
    IN  [threw |-> \E tag \in counted :
                      isInlineCandidate(tag, BlockOfScan(_items, st, tag)) = "OptimizerException",
         blocks |-> [tag \in kept |->
                        [first |-> st.inlinableBlockItems[tag].first,
                         last |-> st.inlinableBlockItems[tag].last,
                         pushTagCount |-> st.numPushTags[tag]]]]

(***************************************************************************)
(* Inliner::shouldInline                                                   *)
(***************************************************************************)
\* ranges::views::drop_last(items, 1)
DropLast(items) ==
    IF items = <<>> THEN <<>> ELSE SubSeq(items, 1, Len(items) - 1)

\* ranges::accumulate(... bytesRequired(3) ..., 0u): the running sum has the type of 0u
RECURSIVE Accumulate(_, _)
Accumulate(items, sum) ==
    IF items = <<>> THEN sum
    ELSE Accumulate(Tail(items),
                    Wrap(BigAdd(sum, BigOfNat(bytesRequired(items[1], 3))), SizeofUnsigned))

codeSizeOf(items) ==
    Wrap(Accumulate(DropLast(items), <<>>), SizeofSizeT)

\* bigint(m_runs) * 24u * numberOfCalls
uninlinedExecutionCost(runs, numberOfCalls) ==
    BigMul(BigMul(BigOfNat(runs), BigOfNat(24)), numberOfCalls)

\* (8u * _block.pushTagCount + 2 + codeSize) * 200u, evaluated in uint64_t
uninlinedDepositCost(pushTagCount, codeSize) ==
    LET times8 == Wrap(BigMul(BigOfNat(8), pushTagCount), SizeofUint64)
        plus2 == Wrap(BigAdd(times8, BigOfNat(2)), SizeofUint64)
        plusSize == Wrap(BigAdd(plus2, codeSize), SizeofUint64)
    IN  Wrap(BigMul(plusSize, BigOfNat(200)), SizeofUint64)

\* _block.pushTagCount * codeSize * 200, evaluated in uint64_t
inlinedCost(pushTagCount, codeSize) ==
    Wrap(BigMul(Wrap(BigMul(pushTagCount, codeSize), SizeofUint64), BigOfNat(200)), SizeofUint64)

\* line 118 with >= in place of >
CostAcceptsNonStrict(runs, pushTagCount, codeSize) ==
    ~BigGreater(inlinedCost(pushTagCount, codeSize),
                BigAdd(uninlinedExecutionCost(runs, pushTagCount),
                       uninlinedDepositCost(pushTagCount, codeSize)))

\* line 118
CostAccepts(runs, pushTagCount, codeSize) ==
    BigGreater(BigAdd(uninlinedExecutionCost(runs, pushTagCount),
                      uninlinedDepositCost(pushTagCount, codeSize)),
               inlinedCost(pushTagCount, codeSize))

\* lines 95-98 without the test of the exit jump
JumpKindsEligibleCallOnly(_jump, exitJump) ==
    _jump.jumpType = "IntoFunction"

\* lines 95-98
JumpKindsEligible(_jump, exitJump) ==
    /\ _jump.jumpType = "IntoFunction"
    /\ exitJump.jumpType = "OutOfFunction"

\* lines 95-122 once exitJump has been read; <<>> is nullopt
shouldInlineFrom(_jump, exitJump, _block, runs) ==
    IF JumpKindsEligible(_jump, exitJump)
       /\ CostAccepts(runs, _block.pushTagCount, codeSizeOf(_block.items))
    THEN <<setJumpType(exitJump, "Ordinary")>>
    ELSE <<>>

\* shouldInline for a non-empty block: exitJump = _block.items.back()
shouldInline(_tag, _jump, _block, runs) ==
    shouldInlineFrom(_jump, _block.items[Len(_block.items)], _block, runs)

(***************************************************************************)
(* Inliner::optimise, one action per step of the function.                 *)
(***************************************************************************)
\* the InlinableBlock stored for tag, its span read from m_items
BlockOf(tag) ==
    [items |-> SpanItems(m_items, inlinableBlocks[tag]),
     pushTagCount |-> inlinableBlocks[tag].pushTagCount]

\* lines 137-141: *it is a PushTag, it has a successor that is a JUMP,
\* and the pushed tag has an entry in inlinableBlocks
IsCallSite ==
    /\ it + 1 <= Len(m_items)
    /\ m_items[it].type = "PushTag"
    /\ IsJump(m_items[it + 1])
    /\ m_items[it].data \in DOMAIN inlinableBlocks

\* line 142, to be read only where IsCallSite holds
Decision ==
    shouldInline(m_items[it].data, m_items[it + 1], BlockOf(m_items[it].data), m_runs)

\* lines 144-145 without line 145: the exit jump is not emitted
InlinedCopyWithoutExit(block, exitJump) ==
    DropLast(block.items)

\* lines 144-145 with the block copied whole: its exit jump keeps its jump type
InlinedCopyExitUnchanged(block, exitJump) ==
    block.items

\* lines 144-145: what is appended to newItems
InlinedCopy(block, exitJump) ==
    DropLast(block.items) \o <<exitJump>>

\* lines 150-153
RECURSIVE CountInlinedPushTags(_, _)
CountInlinedPushTags(blocks, items) ==
    IF items = <<>> THEN blocks
    ELSE CountInlinedPushTags(
            IF items[1].type = "PushTag" /\ items[1].data \in DOMAIN blocks
            THEN [blocks EXCEPT ![items[1].data].pushTagCount = U64Inc(@)]
            ELSE blocks,
            Tail(items))

\* lines 148-153 without the decrement of line 148
BookkeepingNoDecrement(blocks, tag, items) ==
    CountInlinedPushTags(blocks, items)

\* lines 148-153 with the decrement of line 148 applied twice
BookkeepingDoubleDecrement(blocks, tag, items) ==
    CountInlinedPushTags([blocks EXCEPT ![tag].pushTagCount = U64Dec(U64Dec(@))], items)

\* lines 148-153 with ++ in the place of the -- of line 148
BookkeepingIncrement(blocks, tag, items) ==
    CountInlinedPushTags([blocks EXCEPT ![tag].pushTagCount = U64Inc(@)], items)

\* lines 148-153
Bookkeeping(blocks, tag, items) ==
    CountInlinedPushTags([blocks EXCEPT ![tag].pushTagCount = U64Dec(@)], items)

\* line 160 with the jump type of the emitted item reset
EmittedOrdinary(item) ==
    setJumpType(item, "Ordinary")

\* line 160: the item appended to newItems
Emitted(item) ==
    item

\* lines 128-133
Begin ==
    /\ pc = "start"
    /\ LET r == determineInlinableBlocks(m_items)
       IN  IF r.threw
           THEN /\ pc' = "OptimizerException"
                /\ UNCHANGED <<inlinableBlocks, it, newItems>>
           ELSE /\ inlinableBlocks' = r.blocks
                /\ IF DOMAIN r.blocks = {}
                   THEN pc' = "done" /\ UNCHANGED <<it, newItems>>
                   ELSE pc' = "scan" /\ it' = 1 /\ newItems' = <<>>
    /\ UNCHANGED <<m_items, m_runs, input, inlinedAt, call>>
    /\ UNCHANGED lspVars
    /\ UNCHANGED testVars

\* lines 93 and 100 with exitJump bound by reference: setJumpType writes into the
\* block's last item, which is an item of the stream
StreamAfterDecisionAliased(_items, _block) ==
    [_items EXCEPT ![_block.last] = setJumpType(@, "Ordinary")]

\* lines 93 and 100: exitJump is a copy of the block's last item, so setting its
\* jump type leaves the stream that the spans view as it is
StreamAfterDecision(_items, _block) ==
    _items

\* lines 156-157 without the ++it of line 156: only the PushTag is consumed
AfterCallSitePushOnly(i) ==
    i + 1

\* lines 156-157 and the ++it of line 134: the PushTag and the JUMP are consumed
AfterCallSite(i) ==
    i + 2

\* lines 142-157: the call site at *it is replaced by a copy of the block
Inline ==
    /\ pc = "scan"
    /\ it <= Len(m_items)
    /\ IsCallSite
    /\ Decision # <<>>
    /\ LET tag == m_items[it].data
       IN  /\ newItems' = newItems \o InlinedCopy(BlockOf(tag), Decision[1])
           /\ inlinableBlocks' = Bookkeeping(inlinableBlocks, tag, BlockOf(tag).items)
           /\ inlinedAt' = Append(inlinedAt, [pos |-> it, tag |-> tag, at |-> Len(newItems) + 1])
    /\ it' = AfterCallSite(it)
    /\ m_items' = StreamAfterDecision(m_items, inlinableBlocks[m_items[it].data])
    /\ UNCHANGED <<m_runs, pc, input, call>>
    /\ UNCHANGED lspVars
    /\ UNCHANGED testVars

\* line 160: *it is copied to newItems
Emit ==
    /\ pc = "scan"
    /\ it <= Len(m_items)
    /\ ~(IsCallSite /\ Decision # <<>>)
    /\ newItems' = Append(newItems, Emitted(m_items[it]))
    /\ it' = it + 1
    /\ UNCHANGED <<m_items, m_runs, pc, inlinableBlocks, input, inlinedAt, call>>
    /\ UNCHANGED lspVars
    /\ UNCHANGED testVars

\* line 163 and the return: the locals go out of scope
Finish ==
    /\ pc = "scan"
    /\ it = Len(m_items) + 1
    /\ m_items' = newItems
    /\ newItems' = <<>>
    /\ inlinableBlocks' = <<>>
    /\ pc' = "done"
    /\ UNCHANGED <<m_runs, it, input, inlinedAt, call>>
    /\ UNCHANGED lspVars
    /\ UNCHANGED testVars

(***************************************************************************)
(* Input streams.                                                          *)
(***************************************************************************)
SeqsUpTo(S, n) ==
    UNION {[1..k -> S] : k \in 0..n}

Alphabet ==
    {TagItem(1), TagItem(2), PushTagItem(1), PushTagItem(2),
     Jump("Ordinary"), Jump("IntoFunction"), Jump("OutOfFunction"),
     Op("JUMPI"), PushItem(1)}

ShortStreams ==
    SeqsUpTo(Alphabet, MaxLen)

\* a body of 13 bytes that leaves the stack as it found it
Body13 ==
    <<PushItem(16777216), PushItem(1), Op("MSTORE"), PushItem(1), PushItem(1), Op("MSTORE")>>

\* the call idiom: push the return address, push the target, jump; the return tag follows
CallSegment(ret, target, jt) ==
    <<PushTagItem(ret), PushTagItem(target), Jump(jt), TagItem(ret)>>

RECURSIVE MainPart(_, _, _)
MainPart(targets, jt, k) ==
    IF k > Len(targets) THEN <<>>
    ELSE CallSegment(2 + k, targets[k], jt) \o MainPart(targets, jt, k + 1)

\* a main part calling blocks 1 and 2, then the two blocks out of line
Program(targets, jt, body1, exit1, body2, exit2) ==
    MainPart(targets, jt, 1) \o <<Op("STOP")>>
    \o <<TagItem(1)>> \o body1 \o <<Jump(exit1)>>
    \o <<TagItem(2)>> \o body2 \o <<Jump(exit2)>>

Programs ==
    {Program(targets, jt, body1, exit1, body2, exit2) :
        targets \in SeqsUpTo({1, 2}, MaxCalls),
        jt \in {"IntoFunction", "Ordinary"},
        body1 \in {<<>>, <<PushTagItem(2)>>, <<PushTagItem(1)>>, <<PushItem(1), Op("POP")>>},
        exit1 \in {"OutOfFunction", "Ordinary"},
        body2 \in {<<>>, <<PushItem(1), Op("POP")>>, Body13},
        exit2 \in {"OutOfFunction", "Ordinary"}}

Runs ==
    {0, 1, 200}

\* no language server is running: its members are as constructed
NoReply ==
    [op |-> "none", uri |-> <<>>, outcome |-> "none", consulted |-> <<>>]

NoDiagnostics ==
    <<>>

\* no call of C.f is under way
NoTest ==
    [pc |-> "none", s1 |-> 0, s2 |-> 0, memory |-> <<>>, reported |-> {}]

LspAtRest ==
    /\ smt = NoTest
    /\ m_vfs = <<>>
    /\ m_sourceCodes = <<>>
    /\ m_compilerStack = <<>>
    /\ pushed = NoDiagnostics
    /\ reply = NoReply

NoCall ==
    [op |-> "none", tag |-> 0, jump |-> Jump("Ordinary"), items |-> <<>>,
     pushTagCount |-> <<>>, outcome |-> "none", exit |-> <<>>]

Init ==
    /\ \/ m_items \in ShortStreams /\ m_runs = 0
       \/ m_items \in Programs /\ m_runs \in Runs
    /\ input = m_items
    /\ pc = "start"
    /\ inlinableBlocks = <<>>
    /\ it = 1
    /\ newItems = <<>>
    /\ inlinedAt = <<>>
    /\ call = NoCall
    /\ LspAtRest

Next ==
    \/ Begin
    \/ Inline
    \/ Emit
    \/ Finish

Spec ==
    Init /\ [][Next]_vars

(***************************************************************************)
(* Direct calls of the two helper functions.                               *)
(***************************************************************************)
\* largest small call count handed directly to shouldInline
MaxCount ==
    3

BodyAlphabet ==
    {PushItem(1), PushTagItem(2), Op("ADD"), PushItem(16777216)}

\* the empty block and every body followed by an exit jump
DirectBlocks ==
    {<<>>} \cup {body \o <<Jump(jt)>> : body \in SeqsUpTo(BodyAlphabet, MaxBody), jt \in JumpType}

\* 2^58 - 1 and 2^62 as uint64_t
HugeCounts ==
    {<<255, 255, 255, 255, 255, 255, 255, 3>>, <<0, 0, 0, 0, 0, 0, 0, 64>>}

DirectCounts ==
    {BigOfNat(n) : n \in 0..MaxCount} \cup HugeCounts

CandidateCalls ==
    {[op |-> "isInlineCandidate", tag |-> t, jump |-> Jump("Ordinary"), items |-> b,
      pushTagCount |-> <<1>>, outcome |-> "none", exit |-> <<>>] :
        t \in {1, 2}, b \in DirectBlocks}

DecisionCalls ==
    {[op |-> "shouldInline", tag |-> 2, jump |-> Jump(jt), items |-> b,
      pushTagCount |-> c, outcome |-> "none", exit |-> <<>>] :
        jt \in JumpType, b \in DirectBlocks, c \in DirectCounts}

InitDirect ==
    /\ \/ call \in CandidateCalls /\ m_runs = 0
       \/ call \in DecisionCalls /\ m_runs \in Runs
    /\ m_items = <<>>
    /\ input = <<>>
    /\ pc = "direct"
    /\ inlinableBlocks = <<>>
    /\ it = 1
    /\ newItems = <<>>
    /\ inlinedAt = <<>>
    /\ LspAtRest

CallBlock ==
    [items |-> call.items, pushTagCount |-> call.pushTagCount]

CallIsInlineCandidate ==
    /\ call.op = "isInlineCandidate"
    /\ call.outcome = "none"
    /\ call' = [call EXCEPT !.outcome = isInlineCandidate(call.tag, CallBlock)]
    /\ UNCHANGED <<m_items, m_runs, pc, inlinableBlocks, it, newItems, input, inlinedAt>>
    /\ UNCHANGED lspVars
    /\ UNCHANGED testVars

\* what the caller sees of an optional<AssemblyItem>
Returned(r) ==
    [call EXCEPT !.outcome = IF r = <<>> THEN "nullopt" ELSE "exitJump", !.exit = r]

\* On an empty block line 93 reads back() of an empty span, which is undefined:
\* the call may crash, or go on with whatever item the read yields.
CallShouldInline ==
    /\ call.op = "shouldInline"
    /\ call.outcome = "none"
    /\ IF call.items # <<>>
       THEN call' = Returned(shouldInline(call.tag, call.jump, CallBlock, m_runs))
       ELSE \/ \E garbage \in Alphabet :
                  call' = Returned(shouldInlineFrom(call.jump, garbage, CallBlock, m_runs))
            \/ call' = [call EXCEPT !.outcome = "crash"]
    /\ UNCHANGED <<m_items, m_runs, pc, inlinableBlocks, it, newItems, input, inlinedAt>>
    /\ UNCHANGED lspVars
    /\ UNCHANGED testVars

NextDirect ==
    \/ CallIsInlineCandidate
    \/ CallShouldInline

SpecDirect ==
    InitDirect /\ [][NextDirect]_vars

(***************************************************************************)
(* An abstract stack machine for instruction streams.  The address of a    *)
(* tag is its identifier.  The top of the stack is the last element.       *)
(***************************************************************************)
\* number of machine steps after which a run is given up
MaxSteps ==
    60

Machine0 ==
    [at |-> 1, stack |-> <<>>, mem |-> <<>>, status |-> "running"]

Halt(st, how) ==
    [st EXCEPT !.status = how]

Pop(stack, n) ==
    SubSeq(stack, 1, Len(stack) - n)

TagPositions(items, target) ==
    {i \in 1..Len(items) : items[i].type = "Tag" /\ items[i].data = target}

JumpTo(items, st, target, popped) ==
    IF TagPositions(items, target) = {} THEN Halt(st, "error")
    ELSE [st EXCEPT !.at = CHOOSE i \in TagPositions(items, target) :
                              \A j \in TagPositions(items, target) : i <= j,
                    !.stack = Pop(st.stack, popped)]

MachineStep(items, st) ==
    LET item == items[st.at]
        n == Len(st.stack)
        needs == CASE item.type # "Operation" -> 0
                   [] item.instr \in {"JUMP", "POP"} -> 1
                   [] item.instr \in {"JUMPI", "ADD", "MSTORE"} -> 2
                   [] OTHER -> 0
        next == [st EXCEPT !.at = st.at + 1]
    IN  IF n < needs THEN Halt(st, "error")
        ELSE CASE item.type = "Tag" -> next
               [] item.type \in {"Push", "PushTag"} ->
                    [next EXCEPT !.stack = Append(st.stack, item.data)]
               [] item.instr = "JUMP" -> JumpTo(items, st, st.stack[n], 1)
               [] item.instr = "JUMPI" ->
                    IF st.stack[n - 1] # 0 THEN JumpTo(items, st, st.stack[n], 2)
                    ELSE [next EXCEPT !.stack = Pop(st.stack, 2)]
               [] item.instr = "POP" -> [next EXCEPT !.stack = Pop(st.stack, 1)]
               [] item.instr = "ADD" ->
                    [next EXCEPT !.stack = Append(Pop(st.stack, 2), st.stack[n] + st.stack[n - 1])]
               [] item.instr = "MSTORE" ->
                    [next EXCEPT !.stack = Pop(st.stack, 2),
                                 !.mem = (st.stack[n] :> st.stack[n - 1]) @@ st.mem]
               [] OTHER -> Halt(st, "stopped")

RECURSIVE RunFrom(_, _, _)
RunFrom(items, st, fuel) ==
    IF st.status # "running" THEN st
    ELSE IF st.at > Len(items) THEN Halt(st, "end")
    ELSE IF fuel = 0 THEN Halt(st, "fuel")
    ELSE RunFrom(items, MachineStep(items, st), fuel - 1)

\* the observable end state of a run: how it ended, the stack and the memory
Run(items) ==
    LET st == RunFrom(items, Machine0, MaxSteps)
    IN  [status |-> st.status, stack |-> st.stack, mem |-> st.mem]

(***************************************************************************)
(* Properties.  The helpers below restate what a property talks about in   *)
(* plain integers and in terms of the input stream, independently of the   *)
(* definitions that model the code.                                        *)
(***************************************************************************)
Last(seq) ==
    seq[Len(seq)]

RECURSIVE SumBytes(_)
SumBytes(items) ==
    IF items = <<>> THEN 0 ELSE bytesRequired(items[1], 3) + SumBytes(Tail(items))

\* code size of a block in plain integers: every item but the exit jump
PlainCodeSize(items) ==
    SumBytes(DropLast(items))

\* the strict comparison of the cost model in plain integers
PlainCostAccepts(runs, callCount, codeSize) ==
    runs * 24 * callCount + (8 * callCount + 2 + codeSize) * 200 > callCount * codeSize * 200

PlainCostEqual(runs, callCount, codeSize) ==
    runs * 24 * callCount + (8 * callCount + 2 + codeSize) * 200 = callCount * codeSize * 200

PushTagsOf(tag, items) ==
    Cardinality({k \in 1..Len(items) : items[k].type = "PushTag" /\ items[k].data = tag})

UniqueTags(items) ==
    \A i, j \in 1..Len(items) :
        (items[i].type = "Tag" /\ items[j].type = "Tag" /\ items[i].data = items[j].data) => i = j

\* the candidate map of the input stream and its blocks
InputBlocks ==
    determineInlinableBlocks(input).blocks

InputBlock(tag) ==
    [items |-> SpanItems(input, InputBlocks[tag]), pushTagCount |-> InputBlocks[tag].pushTagCount]

\* position i of the input holds PushTag L; JUMP with L in the candidate map
InputSite(i) ==
    /\ i + 1 <= Len(input)
    /\ input[i].type = "PushTag"
    /\ IsJump(input[i + 1])
    /\ input[i].data \in DOMAIN InputBlocks

InputSiteEligible(i) ==
    /\ InputSite(i)
    /\ input[i + 1].jumpType = "IntoFunction"
    /\ Last(InputBlock(input[i].data).items).jumpType = "OutOfFunction"

\* every IntoFunction jump is the end of a call idiom whose target block returns
CallReturnShaped ==
    /\ UniqueTags(input)
    /\ \A i \in 1..Len(input) :
          (IsJump(input[i]) /\ input[i].jumpType = "IntoFunction") =>
              /\ i >= 3
              /\ input[i - 2].type = "PushTag"
              /\ InputSiteEligible(i - 1)

\* the scan of optimise stands at an eligible call site
AtEligibleSite ==
    /\ pc = "scan"
    /\ it <= Len(m_items)
    /\ IsCallSite
    /\ m_items[it + 1].jumpType = "IntoFunction"
    /\ Last(BlockOf(m_items[it].data).items).jumpType = "OutOfFunction"

\* C1: semantic equivalence of optimise. When optimise has returned, running the
\* rewritten stream on the abstract stack machine ends in the same observable
\* state (how it ended, stack, memory) as running the input stream, for every
\* input whose tags are defined once (every well-formed call/return-shaped
\* program is one) and whose run ends within MaxSteps steps.
C1_Equivalence ==
    (pc = "done" /\ UniqueTags(input) /\ Run(input).status # "fuel")
        => Run(m_items) = Run(input)

C1_Witness ==
    /\ pc = "done"
    /\ CallReturnShaped
    /\ Len(inlinedAt) = 2
    /\ Run(input).status = "stopped"
    /\ Run(input).mem # <<>>

\* C2: cost threshold. At a call site whose jump is IntoFunction and whose block
\* ends in an OutOfFunction jump, the site is inlined if and only if
\* runs*24*callCount + (8*callCount + 2 + codeSize)*200 > callCount*codeSize*200;
\* at equality it is not inlined, and with runs + 1 it would be.
C2_Threshold ==
    [][AtEligibleSite =>
          LET block == BlockOf(m_items[it].data)
              callCount == NatOfBig(block.pushTagCount)
              codeSize == PlainCodeSize(block.items)
          IN  /\ (inlinedAt' # inlinedAt) <=> PlainCostAccepts(m_runs, callCount, codeSize)
              /\ PlainCostEqual(m_runs, callCount, codeSize) =>
                    /\ newItems' = Append(newItems, m_items[it])
                    /\ it' = it + 1
                    /\ shouldInline(m_items[it].data, m_items[it + 1], block, m_runs + 1) # <<>>]_vars

\* an eligible call site at the equality point has been passed without inlining
C2_Witness ==
    /\ pc = "done"
    /\ inlinedAt = <<>>
    /\ m_items = input
    /\ \E i \in 1..Len(input) :
          /\ InputSiteEligible(i)
          /\ PlainCostEqual(m_runs, NatOfBig(InputBlock(input[i].data).pushTagCount),
                            PlainCodeSize(InputBlock(input[i].data).items))

\* the three costs in unbounded integers
UnboundedDepositCost(pushTagCount, codeSize) ==
    BigMul(BigAdd(BigAdd(BigMul(BigOfNat(8), pushTagCount), BigOfNat(2)), codeSize), BigOfNat(200))

UnboundedInlinedCost(pushTagCount, codeSize) ==
    BigMul(BigMul(pushTagCount, codeSize), BigOfNat(200))

UnboundedAccepts(runs, pushTagCount, codeSize) ==
    BigGreater(BigAdd(BigMul(BigMul(BigOfNat(runs), BigOfNat(24)), pushTagCount),
                      UnboundedDepositCost(pushTagCount, codeSize)),
               UnboundedInlinedCost(pushTagCount, codeSize))

\* C3: no fixed-width overflow. For every block, call count and runs, the decision
\* of shouldInline is the decision taken in unbounded integers, and neither
\* (8*callCount + 2 + codeSize)*200 nor callCount*codeSize*200 wraps around.
C3_NoOverflow ==
    (/\ call.op = "shouldInline"
     /\ call.outcome \in {"nullopt", "exitJump"}
     /\ call.items # <<>>
     /\ JumpKindsEligible(call.jump, Last(call.items))) =>
        LET codeSize == BigOfNat(PlainCodeSize(call.items))
        IN  /\ (call.outcome = "exitJump") <=> UnboundedAccepts(m_runs, call.pushTagCount, codeSize)
            /\ codeSizeOf(call.items) = codeSize
            /\ uninlinedDepositCost(call.pushTagCount, codeSizeOf(call.items))
                  = UnboundedDepositCost(call.pushTagCount, codeSize)
            /\ inlinedCost(call.pushTagCount, codeSizeOf(call.items))
                  = UnboundedInlinedCost(call.pushTagCount, codeSize)

\* the block the extractor records for a tag pushes that tag itself
SelfReferencing(tag) ==
    LET st == ScanAll(input)
    IN  /\ tag \in DOMAIN st.inlinableBlockItems
        /\ PushTagsOf(tag, SpanItems(input, st.inlinableBlockItems[tag])) > 0

\* C4: self-reference rejection. A label whose recorded block contains a PushTag
\* of the label itself is never in the candidate map, and no call site of it is
\* replaced by a copy of its block.
C4_SelfReference ==
    \A tag \in {input[i].data : i \in 1..Len(input)} :
        SelfReferencing(tag) =>
            /\ tag \notin DOMAIN inlinableBlocks
            /\ \A k \in 1..Len(inlinedAt) : inlinedAt[k].tag # tag

\* the scan has passed an IntoFunction call site of a self-referencing label
C4_Witness ==
    /\ pc = "scan"
    /\ \E i \in 1..Len(input) :
          /\ i + 1 < it
          /\ input[i].type = "PushTag"
          /\ SelfReferencing(input[i].data)
          /\ input[i + 1] = Jump("IntoFunction")
          /\ Last(SpanItems(input, ScanAll(input).inlinableBlockItems[input[i].data]))
                = Jump("OutOfFunction")

\* C5: jump-kind exclusion. A step of the scan inlines only at a call site whose
\* jump is IntoFunction and whose block ends in an OutOfFunction jump; at a call
\* site with any other pairing the item is emitted unchanged, whatever the code
\* size, the call count and runs.
C5_JumpKinds ==
    [][/\ (inlinedAt' # inlinedAt) => AtEligibleSite
       /\ (pc = "scan" /\ it <= Len(m_items) /\ IsCallSite /\ ~AtEligibleSite) =>
             /\ shouldInline(m_items[it].data, m_items[it + 1], BlockOf(m_items[it].data), m_runs) = <<>>
             /\ newItems' = Append(newItems, m_items[it])
             /\ it' = it + 1
             /\ inlinableBlocks' = inlinableBlocks]_vars

\* a call site whose pairing is not eligible, though the cost model would accept
\* it, has been emitted unchanged
C5_Witness ==
    /\ pc = "scan"
    /\ \E i \in 1..Len(input) :
          /\ i < it
          /\ InputSite(i)
          /\ ~InputSiteEligible(i)
          /\ input[i + 1].jumpType = "IntoFunction"
          /\ CostAccepts(m_runs, InputBlock(input[i].data).pushTagCount,
                         codeSizeOf(InputBlock(input[i].data).items))
          /\ \A k \in 1..Len(inlinedAt) : inlinedAt[k].pos # i
          /\ newItems # <<>>
          /\ Last(newItems) = input[it - 1]

\* the call count of a label that the history of the pass predicts: the pushes in
\* the input, plus the pushes in every copy made so far, minus the copies of the
\* label itself
RECURSIVE CopiedPushes(_, _)
CopiedPushes(tag, k) ==
    IF k = 0 THEN 0
    ELSE CopiedPushes(tag, k - 1)
         + PushTagsOf(tag, InputBlock(inlinedAt[k].tag).items)
         - (IF inlinedAt[k].tag = tag THEN 1 ELSE 0)

PredictedCount(tag) ==
    PushTagsOf(tag, input) + CopiedPushes(tag, Len(inlinedAt))

\* C6: cascading bookkeeping. A step that inlines block B lowers B's count by one
\* and raises the count of every candidate C by the number of PushTag C in the
\* copy just emitted; no other step of the scan changes a count; and the
\* decision at every eligible call site is the one the counts updated so far give.
C6_Bookkeeping ==
    [][/\ (inlinedAt' # inlinedAt) =>
             LET B == m_items[it].data
                 copy == SubSeq(newItems', Len(newItems) + 1, Len(newItems'))
             IN  /\ DOMAIN inlinableBlocks' = DOMAIN inlinableBlocks
                 /\ \A C \in DOMAIN inlinableBlocks :
                       /\ NatOfBig(inlinableBlocks'[C].pushTagCount)
                             = NatOfBig(inlinableBlocks[C].pushTagCount)
                               + PushTagsOf(C, copy) - (IF C = B THEN 1 ELSE 0)
                       /\ inlinableBlocks'[C].first = inlinableBlocks[C].first
                       /\ inlinableBlocks'[C].last = inlinableBlocks[C].last
       /\ (inlinedAt' = inlinedAt /\ pc = "scan" /\ pc' = "scan") =>
             inlinableBlocks' = inlinableBlocks
       /\ AtEligibleSite =>
             ((inlinedAt' # inlinedAt) <=>
                 PlainCostAccepts(m_runs, PredictedCount(m_items[it].data),
                                  PlainCodeSize(BlockOf(m_items[it].data).items)))]_vars

\* a copy has raised the count of another candidate above its count in the input,
\* and a call site of that candidate that the input's count would have accepted
\* has then been rejected
C6_Witness ==
    /\ pc = "scan"
    /\ inlinedAt # <<>>
    /\ \E i \in 1..Len(input) :
          /\ i < it
          /\ InputSiteEligible(i)
          /\ \A k \in 1..Len(inlinedAt) : inlinedAt[k].pos # i
          /\ NatOfBig(inlinableBlocks[input[i].data].pushTagCount) > PushTagsOf(input[i].data, input)
          /\ PlainCostAccepts(m_runs, PushTagsOf(input[i].data, input),
                              PlainCodeSize(InputBlock(input[i].data).items))

\* no call site of the input passes the decision function
NoAcceptedCallIdiom ==
    \A i \in 1..Len(input) :
        InputSite(i) =>
            shouldInline(input[i].data, input[i + 1], InputBlock(input[i].data), m_runs) = <<>>

\* C7: no-op safety. If no PushTag; JUMP pair of the input targets a candidate
\* block and passes the decision function (in particular if the candidate map is
\* empty), optimise leaves the stream identical item for item, jump kinds included.
C7_NoOp ==
    (pc = "done" /\ NoAcceptedCallIdiom) => m_items = input

\* the scan ran over a stream with candidates and annotated jumps and inlined nothing
C7_Witness ==
    /\ pc = "done"
    /\ NoAcceptedCallIdiom
    /\ DOMAIN InputBlocks # {}
    /\ it > Len(input)
    /\ \E i \in 1..Len(input) : InputSite(i) /\ input[i + 1].jumpType = "IntoFunction"

\* C8: empty-block calls fail loudly. isInlineCandidate and shouldInline called
\* with an empty block end in an OptimizerException.
C8_EmptyBlock ==
    (call.items = <<>> /\ call.outcome # "none") => call.outcome = "OptimizerException"

\* optimise has a next step to take: it is at its entry, or its iterator is
\* inside the stream or exactly at its end
CanStep ==
    \/ pc = "start"
    \/ pc = "scan" /\ it <= Len(m_items) + 1

\* C9: the pass never rejects input. On every input optimise never raises the
\* non-empty-block assertion, always has a next step until it has returned, moves
\* its iterator forward with every step of the scan, and returns the input
\* unchanged when it inlined nothing.
C9_NeverRejects ==
    /\ [](pc # "OptimizerException")
    /\ [](pc = "done" \/ CanStep)
    /\ [][(pc = "scan" /\ pc' = "scan") => it' > it]_vars
    /\ []((pc = "done" /\ inlinedAt = <<>>) => m_items = input)

\* optimise has returned from a scan of a stream that ends in a PushTag and holds
\* a label that is never pushed
C9_Witness ==
    /\ pc = "done"
    /\ it > Len(input)
    /\ Len(input) > 0
    /\ Last(input).type = "PushTag"
    /\ \E i \in 1..Len(input) : input[i].type = "Tag" /\ PushTagsOf(input[i].data, input) = 0

\* C10: block extractor output. The blocks returned by determineInlinableBlocks
\* are pairwise non-overlapping ranges of the stream, of length >= 1, ending in
\* JUMP, starting right after the Tag of their key, with no Tag and no other
\* block-breaking instruction before the final JUMP.
C10_Blocks ==
    pc = "scan" =>
        /\ \A t \in DOMAIN inlinableBlocks :
              LET b == inlinableBlocks[t]
              IN  /\ 2 <= b.first /\ b.first <= b.last /\ b.last <= Len(m_items)
                  /\ IsJump(m_items[b.last])
                  /\ m_items[b.first - 1].type = "Tag"
                  /\ m_items[b.first - 1].data = t
                  /\ \A k \in b.first..(b.last - 1) :
                        /\ m_items[k].type # "Tag"
                        /\ ~breaksCSEAnalysisBlock(m_items[k])
        /\ \A t, u \in DOMAIN inlinableBlocks :
              t # u => \/ inlinableBlocks[t].last < inlinableBlocks[u].first
                       \/ inlinableBlocks[u].last < inlinableBlocks[t].first

\* two blocks were returned, one of them with a body
C10_Witness ==
    /\ pc = "scan"
    /\ Cardinality(DOMAIN inlinableBlocks) = 2
    /\ \E t \in DOMAIN inlinableBlocks : inlinableBlocks[t].last > inlinableBlocks[t].first

\* the PushTag items of the input for tag at or after position i
PushesAhead(tag, i) ==
    Cardinality({k \in i..Len(input) : input[k].type = "PushTag" /\ input[k].data = tag})

\* C11: the call-site count never goes negative. Throughout the scan of optimise
\* every candidate's count is below 2^64 - 1 with room to spare (it never wrapped)
\* and is at least the number of PushTag items for the candidate still ahead of
\* the iterator; so at every call site PushTag L; JUMP that the scan evaluates
\* L's count is at least 1, and the decrement of an inlining step is never
\* applied to a count of 0.
C11_CountNeverWraps ==
    /\ [](pc = "scan" =>
            /\ \A t \in DOMAIN inlinableBlocks :
                  /\ Len(inlinableBlocks[t].pushTagCount) <= 1
                  /\ NatOfBig(inlinableBlocks[t].pushTagCount) >= PushesAhead(t, it)
            /\ (it <= Len(m_items) /\ IsCallSite) =>
                  NatOfBig(inlinableBlocks[m_items[it].data].pushTagCount) >= 1)
    /\ [][(inlinedAt' # inlinedAt) =>
             /\ inlinableBlocks[m_items[it].data].pushTagCount # <<>>
             /\ inlinableBlocks'[m_items[it].data].pushTagCount # AllOnes(SizeofUint64)]_vars

\* the only call site of a candidate has been inlined and its count stands at 0
C11_Witness ==
    /\ pc = "scan"
    /\ inlinedAt # <<>>
    /\ \E k \in 1..Len(inlinedAt) :
          /\ inlinableBlocks[inlinedAt[k].tag].pushTagCount = <<>>
          /\ PushTagsOf(inlinedAt[k].tag, input) = 1

\* the items of the block that the input defines for tag
InputBody(tag) ==
    SpanItems(input, InputBlocks[tag])

\* a block's instructions except the last, followed by its exit jump as Ordinary
CopyOf(items) ==
    DropLast(items) \o <<[Last(items) EXCEPT !.jumpType = "Ordinary"]>>

\* the input from position i on, with each pair recorded in inlinedAt replaced
RECURSIVE ExpectedOutput(_)
ExpectedOutput(i) ==
    IF i > Len(input) THEN <<>>
    ELSE IF \E k \in 1..Len(inlinedAt) : inlinedAt[k].pos = i
         THEN CopyOf(InputBody(input[i].data)) \o ExpectedOutput(i + 2)
         ELSE <<input[i]>> \o ExpectedOutput(i + 1)

\* C12: the rewrite transition. A scan step at position it with items[it] a
\* PushTag L, items[it+1] a JUMP, L a candidate and shouldInline accepting appends
\* exactly the block's instructions except its last followed by the block's exit
\* jump with kind Ordinary, and continues at it+2; every other scan step (the
\* last item, which has no lookahead, included) appends items[it] unchanged and
\* continues at it+1. The stream optimise returns is therefore the input with
\* each accepted pair replaced by such a copy, in order.
C12_Rewrite ==
    /\ [][(pc = "scan" /\ it <= Len(m_items)) =>
             IF /\ it + 1 <= Len(m_items)
                /\ m_items[it].type = "PushTag"
                /\ IsJump(m_items[it + 1])
                /\ m_items[it].data \in DOMAIN inlinableBlocks
                /\ shouldInline(m_items[it].data, m_items[it + 1],
                                BlockOf(m_items[it].data), m_runs) # <<>>
             THEN /\ newItems' = newItems \o CopyOf(BlockOf(m_items[it].data).items)
                  /\ it' = it + 2
                  /\ Len(inlinedAt') = Len(inlinedAt) + 1
             ELSE /\ newItems' = newItems \o <<m_items[it]>>
                  /\ it' = it + 1
                  /\ inlinedAt' = inlinedAt]_vars
    /\ [](pc = "done" => m_items = ExpectedOutput(1))

\* optimise has returned having replaced one call site by a copy with a body and
\* having emitted another call site of a candidate unchanged
C12_Witness ==
    /\ pc = "done"
    /\ \E k \in 1..Len(inlinedAt) : Len(InputBody(inlinedAt[k].tag)) > 1
    /\ \E i \in 1..Len(input) :
          /\ InputSite(i)
          /\ \A k \in 1..Len(inlinedAt) : inlinedAt[k].pos # i

\* the growth of the stream that the first k recorded call sites account for
RECURSIVE InlinedGrowth(_)
InlinedGrowth(k) ==
    IF k = 0 THEN 0
    ELSE InlinedGrowth(k - 1) + Len(InputBody(inlinedAt[k].tag)) - 2

\* C13: a single forward pass. The iterator of the scan only moves forward, by
\* one or two positions per step, and stops exactly at the end of the input, so
\* optimise returns after at most one step per input position; the inlined call
\* sites are positions of the input, in increasing order and behind the
\* iterator, so an emitted copy is never examined as a call site; and the
\* returned stream has the length of the input plus, for every inlined call
\* site, the length of its block minus 2.
C13_SinglePass ==
    /\ [](pc = "scan" =>
            /\ 1 <= it /\ it <= Len(input) + 1
            /\ Len(inlinedAt) < it)
    /\ [][(pc = "scan" /\ pc' = "scan") => (it' = it + 1 \/ it' = it + 2)]_vars
    /\ [][(pc = "scan" /\ pc' = "done") => it = Len(input) + 1]_vars
    /\ [](\A k \in 1..Len(inlinedAt) :
            /\ InputSite(inlinedAt[k].pos)
            /\ input[inlinedAt[k].pos].data = inlinedAt[k].tag
            /\ inlinedAt[k].pos + 2 <= (IF k < Len(inlinedAt) THEN inlinedAt[k + 1].pos ELSE it))
    /\ [](pc = "done" => Len(m_items) = Len(input) + InlinedGrowth(Len(inlinedAt)))

\* optimise has returned a stream in which the copy of a block with an empty body
\* put its jump right behind the PushTag of a candidate: a PushTag; JUMP pair that
\* the input does not hold
C13_Witness ==
    /\ pc = "done"
    /\ \E k \in 1..Len(inlinedAt) :
          LET at == inlinedAt[k].at
          IN  /\ at >= 2
              /\ Len(InputBody(inlinedAt[k].tag)) = 1
              /\ m_items[at - 1].type = "PushTag"
              /\ m_items[at - 1].data \in DOMAIN InputBlocks
              /\ IsJump(m_items[at])
              /\ ~IsJump(input[inlinedAt[k].pos])

\* C14: the input stream is not modified while the spans are in use. From entry
\* until the scan has ended m_items is the input, no scan step changes it, and
\* the output is collected in newItems; the stream is replaced only by the step
\* that returns. Every copy in the returned stream equals the body of its block
\* as it stands in the input (followed by a jump), also for a call site that
\* comes after other rewritten call sites.
C14_InputFrame ==
    /\ [](pc \in {"start", "scan"} => m_items = input)
    /\ [][pc = "scan" /\ pc' = "scan" => m_items' = m_items /\ newItems' # newItems]_vars
    /\ [][m_items' # m_items => (pc = "scan" /\ pc' = "done" /\ m_items' = newItems)]_vars
    /\ [](\A k \in 1..Len(inlinedAt) :
            LET out == IF pc = "done" THEN m_items ELSE newItems
                body == DropLast(InputBody(inlinedAt[k].tag))
                at == inlinedAt[k].at
            IN  /\ at + Len(body) <= Len(out)
                /\ SubSeq(out, at, at + Len(body) - 1) = body
                /\ IsJump(out[at + Len(body)]))

\* optimise has returned having inlined a second call site, with a body, after
\* it had rewritten a first one
C14_Witness ==
    /\ pc = "done"
    /\ Len(inlinedAt) >= 2
    /\ Len(InputBody(inlinedAt[2].tag)) > 1
    /\ inlinedAt[2].at > inlinedAt[2].pos

\* the first position from q on that holds a Tag or a block-breaking item, 0 if none
RECURSIVE NextBreak(_)
NextBreak(q) ==
    IF q > Len(input) THEN 0
    ELSE IF breaksCSEAnalysisBlock(input[q]) THEN q
    ELSE NextBreak(q + 1)

\* position p of the input defines a label, and the first Tag or block-breaking
\* item after it is a JUMP
EndsInJump(p) ==
    /\ input[p].type = "Tag"
    /\ NextBreak(p + 1) # 0
    /\ IsJump(input[NextBreak(p + 1)])

\* the label tag has a definition in the input that is finalized by a JUMP
Finalized(tag) ==
    \E p \in 1..Len(input) : input[p].data = tag /\ EndsInJump(p)

\* C15: the initial call-site count. When the scan starts, the
\* count of every candidate is the number of PushTag items for its label in the
\* whole input stream, whether or not a JUMP follows them; a label with a
\* finalized block that is pushed nowhere is not a candidate.
C15_InitialCount ==
    (pc = "scan" /\ it = 1) =>
        /\ \A t \in DOMAIN inlinableBlocks :
              /\ Len(inlinableBlocks[t].pushTagCount) <= 1
              /\ NatOfBig(inlinableBlocks[t].pushTagCount) = PushTagsOf(t, input)
        /\ \A p \in 1..Len(input) :
              (/\ input[p].type = "Tag"
               /\ PushTagsOf(input[p].data, input) = 0
               /\ Finalized(input[p].data))
              => input[p].data \notin DOMAIN inlinableBlocks

\* the scan starts with a candidate whose label is pushed twice, a candidate
\* whose label is pushed with no JUMP behind the push, and a finalized label
\* that is pushed nowhere
C15_Witness ==
    /\ pc = "scan"
    /\ it = 1
    /\ \E t \in DOMAIN inlinableBlocks : PushTagsOf(t, input) = 2
    /\ \E i \in 1..(Len(input) - 1) :
          /\ input[i].type = "PushTag"
          /\ input[i].data \in DOMAIN inlinableBlocks
          /\ ~IsJump(input[i + 1])
    /\ \E p \in 1..Len(input) :
          /\ input[p].type = "Tag"
          /\ Finalized(input[p].data)
          /\ PushTagsOf(input[p].data, input) = 0

\* the label definitions that yield a block, each with the JUMP that ends it
Yielding ==
    {<<p, NextBreak(p + 1)>> : p \in {p \in 1..Len(input) : EndsInJump(p)}}

\* C16: pending-label handling. The extractor records a block for a label
\* exactly if some definition of the label has the unconditional JUMP as the
\* first block-breaking item after it, and the block recorded is the one of the
\* last such definition; a definition followed first by another label
\* definition or by another block-breaking item yields no block; a JUMP that is
\* not the first block-breaking item after a label definition ends no block.
\* The candidates with which the scan starts are among the blocks recorded.
C16_PendingLabel ==
    (pc = "start" \/ (pc = "scan" /\ it = 1)) =>
    \A recorded \in {ScanAll(input).inlinableBlockItems}, yielding \in {Yielding} :
        /\ \A t \in DOMAIN recorded :
              \E pq \in yielding :
                  /\ input[pq[1]].data = t
                  /\ recorded[t].first = pq[1] + 1
                  /\ recorded[t].last = pq[2]
                  /\ \A later \in yielding : input[later[1]].data = t => later[1] <= pq[1]
        /\ \A pq \in yielding : input[pq[1]].data \in DOMAIN recorded
        /\ \A p \in 1..Len(input) :
              (input[p].type = "Tag" /\ ~\E pq \in yielding : pq[1] = p) =>
                  \A t \in DOMAIN recorded : recorded[t].first # p + 1
        /\ \A q \in 1..Len(input) :
              (IsJump(input[q]) /\ ~\E pq \in yielding : pq[2] = q) =>
                  \A t \in DOMAIN recorded : recorded[t].last # q
        /\ pc = "scan" =>
              \A t \in DOMAIN inlinableBlocks :
                  /\ t \in DOMAIN recorded
                  /\ inlinableBlocks[t].first = recorded[t].first
                  /\ inlinableBlocks[t].last = recorded[t].last

\* the scan starts on an input that holds a candidate, a label definition whose
\* first block-breaking item is not a JUMP, and a JUMP seen with no label pending
C16_Witness ==
    /\ pc = "scan"
    /\ it = 1
    /\ DOMAIN inlinableBlocks # {}
    /\ \E p \in 1..Len(input) :
          /\ input[p].type = "Tag"
          /\ NextBreak(p + 1) # 0
          /\ input[NextBreak(p + 1)].type # "Tag"
          /\ ~IsJump(input[NextBreak(p + 1)])
    /\ \E q \in 1..Len(input) :
          /\ IsJump(input[q])
          /\ \A p \in 1..(q - 1) : input[p].type # "Tag"

\* C17: a block with a single call site is always inlined. For an eligible
\* IntoFunction/OutOfFunction pairing shouldInline accepts whenever the call
\* count is 1, for every code size and every runs, and accepts every block of
\* code size at most 8 for every call count.
C17_SingleCallSite ==
    (/\ call.op = "shouldInline"
     /\ call.outcome \in {"nullopt", "exitJump"}
     /\ call.items # <<>>
     /\ call.jump.jumpType = "IntoFunction"
     /\ Last(call.items).jumpType = "OutOfFunction"
     /\ (call.pushTagCount = <<1>> \/ PlainCodeSize(call.items) <= 8)) =>
        call.outcome = "exitJump"

\* the part of C17 about a call count of 1
C17_CountOne ==
    (/\ call.op = "shouldInline"
     /\ call.outcome \in {"nullopt", "exitJump"}
     /\ call.items # <<>>
     /\ call.jump.jumpType = "IntoFunction"
     /\ Last(call.items).jumpType = "OutOfFunction"
     /\ call.pushTagCount = <<1>>) =>
        call.outcome = "exitJump"

\* the eligible call sites of tag in the input that the scan has passed
PassedSites(tag) ==
    {i \in 1..Len(input) : i < it /\ InputSiteEligible(i) /\ input[i].data = tag}

InlinedPositions ==
    {inlinedAt[k].pos : k \in 1..Len(inlinedAt)}

\* no copy made so far holds a PushTag of tag
NeverIncremented(tag) ==
    \A k \in 1..Len(inlinedAt) : PushTagsOf(tag, InputBody(inlinedAt[k].tag)) = 0

\* C18: all-or-nothing inlining per label. For a candidate whose count no
\* inlining of another block has raised, when optimise returns either every
\* eligible call site of the label has been inlined or none has: after one call
\* site of the label was accepted, no later eligible call site of it is
\* rejected, and after one was rejected none is accepted.
C18_AllOrNothing ==
    pc = "done" =>
        \A blocks \in {InputBlocks} :
            LET eligible == {i \in 1..(Len(input) - 1) :
                                /\ input[i].type = "PushTag"
                                /\ input[i].data \in DOMAIN blocks
                                /\ IsJump(input[i + 1])
                                /\ input[i + 1].jumpType = "IntoFunction"
                                /\ input[blocks[input[i].data].last].jumpType = "OutOfFunction"}
            IN  \A tag \in DOMAIN blocks :
                (\A k \in 1..Len(inlinedAt) :
                    PushTagsOf(tag, SpanItems(input, blocks[inlinedAt[k].tag])) = 0) =>
                    LET sites == {i \in eligible : input[i].data = tag}
                    IN  \/ sites \subseteq InlinedPositions
                        \/ sites \cap InlinedPositions = {}

\* optimise has returned having inlined both eligible call sites of a label
\* whose block would have been rejected at a count of 3
C18_Witness ==
    /\ pc = "done"
    /\ \E tag \in DOMAIN InputBlocks :
          /\ NeverIncremented(tag)
          /\ Cardinality(PassedSites(tag)) = 2
          /\ PassedSites(tag) \subseteq InlinedPositions
          /\ ~PlainCostAccepts(m_runs, 3, PlainCodeSize(InputBody(tag)))

\* where position p of the input stands in the returned stream
RECURSIVE GrowthBefore(_, _)
GrowthBefore(p, k) ==
    IF k = 0 THEN 0
    ELSE GrowthBefore(p, k - 1)
         + (IF inlinedAt[k].pos < p THEN Len(InputBody(inlinedAt[k].tag)) - 2 ELSE 0)

OutPos(p) ==
    p + GrowthBefore(p, Len(inlinedAt))

\* C19: out-of-line definitions are preserved. For every label whose block was
\* inlined at least once, the returned stream still holds the label's Tag, the
\* original body and the exit jump with kind OutOfFunction, item for item and
\* at the position the input gives them (shifted by the growth of the stream
\* before them), also when the label's count has dropped to 0.
C19_DefinitionsPreserved ==
    pc = "done" =>
        \A k \in 1..Len(inlinedAt) :
            \A b \in {InputBlocks[inlinedAt[k].tag]} :
                /\ \A p \in (b.first - 1)..b.last :
                      /\ p \notin InlinedPositions
                      /\ OutPos(p) = OutPos(b.first - 1) + (p - (b.first - 1))
                      /\ OutPos(p) <= Len(m_items)
                      /\ m_items[OutPos(p)] = input[p]
                /\ m_items[OutPos(b.first - 1)] = TagItem(inlinedAt[k].tag)
                /\ IsJump(m_items[OutPos(b.last)])
                /\ m_items[OutPos(b.last)].jumpType = "OutOfFunction"

\* optimise has returned having inlined the only call site of a label whose
\* block has a body and stands behind the call site
C19_Witness ==
    /\ pc = "done"
    /\ \E k \in 1..Len(inlinedAt) :
          /\ PushTagsOf(inlinedAt[k].tag, input) = 1
          /\ Len(InputBody(inlinedAt[k].tag)) > 2
          /\ OutPos(InputBlocks[inlinedAt[k].tag].first) > InputBlocks[inlinedAt[k].tag].first

(***************************************************************************)
(* LanguageServer: the virtual file system, compile, validate, the         *)
(* document notifications and the three requests.  Texts and URIs are      *)
(* sequences of characters.  The compiler itself is not modelled: a        *)
(* CompilerStack is the set of sources it was given, and the errors it     *)
(* reports are left out of the diagnostics.                                *)
(***************************************************************************)
\* largest number of pieces a text is made of
MaxPieces ==
    2

FileScheme ==
    <<"f", "i", "l", "e", ":", "/", "/">>

Uris ==
    {FileScheme \o <<"/", "a">>, FileScheme \o <<"/", "b">>}

Fixme ==
    <<"F", "I", "X", "M", "E">>

Todo ==
    <<"T", "O", "D", "O">>

Pieces ==
    {Fixme, Todo}

RECURSIVE Concat(_)
Concat(pieces) ==
    IF pieces = <<>> THEN <<>> ELSE pieces[1] \o Concat(Tail(pieces))

Contents ==
    {Concat(pieces) : pieces \in SeqsUpTo(Pieces, MaxPieces)}

\* document versions; 0 stands for an absent optional<int>
Versions ==
    {1, 2}

\* uri().substr(7): the uri without its first seven characters
SourceNameOf(uri) ==
    SubSeq(uri, 8, Len(uri))

\* string::npos
NPos ==
    -1

\* string::find(pattern, pos) with 0-based positions
RECURSIVE Find(_, _, _)
Find(text, pattern, pos) ==
    IF pos + Len(pattern) > Len(text) THEN NPos
    ELSE IF SubSeq(text, pos + 1, pos + Len(pattern)) = pattern THEN pos
    ELSE Find(text, pattern, pos + 1)

\* the Diagnostic built in the marker loops; the texts have one line, so that
\* toPosition(pos) is line 0, column pos
MarkerDiagnostic(message, severity, pos) ==
    [message |-> message, severity |-> severity, source |-> "solc",
     line |-> 0, startColumn |-> pos, endColumn |-> pos + 5]

\* the first marker loop: starts at find("FIXME", 0), continues with find("FIXME", pos + 1)
RECURSIVE FixmeLoop(_, _)
FixmeLoop(text, pos) ==
    IF pos = NPos THEN <<>>
    ELSE <<MarkerDiagnostic("Hello, FIXME's should be fixed.", "Error", pos)>>
         \o FixmeLoop(text, Find(text, Fixme, pos + 1))

\* the second marker loop: starts at find("TODO", 0), continues with find("FIXME", pos + 1)
RECURSIVE TodoLoop(_, _)
TodoLoop(text, pos) ==
    IF pos = NPos THEN <<>>
    ELSE <<MarkerDiagnostic("Please remember to create a ticket on GitHub for that.", "Hint", pos)>>
         \o TodoLoop(text, Find(text, Fixme, pos + 1))

\* validate(_file, _result) without the errors of the compiler
DiagnosticsOf(uri, file) ==
    [uri |-> uri,
     diagnostics |-> FixmeLoop(file.content, Find(file.content, Fixme, 0))
                     \o TodoLoop(file.content, Find(file.content, Todo, 0))]

\* m_sourceCodes after compile(_file): cleared, then the one file
SourcesOf(uri, file) ==
    SourceNameOf(uri) :> file.content

\* compile(_file): m_sourceCodes and a new CompilerStack over them
compile(uri, file) ==
    /\ m_sourceCodes' = SourcesOf(uri, file)
    /\ m_compilerStack' = <<[sources |-> SourcesOf(uri, file)]>>

\* the vector that validate(_file, _result) fills: one PublishDiagnostics
ValidateResult(uri, file) ==
    <<DiagnosticsOf(uri, file)>>

\* validate(_file): compile, then push every element of the result
validate(uri, file) ==
    /\ compile(uri, file)
    /\ pushed' = ValidateResult(uri, file)

\* what documentContentUpdated leaves behind: the outcome and the version it was given
UpdateReply(uri, outcome, version) ==
    [op |-> "documentContentUpdated", uri |-> uri, outcome |-> outcome,
     consulted |-> <<>>, version |-> version]

Reply(op, uri, outcome, consulted) ==
    [op |-> op, uri |-> uri, outcome |-> outcome, consulted |-> consulted]

documentOpened ==
    \E uri \in Uris, version \in Versions, contents \in Contents :
        LET file == [content |-> contents, version |-> version]
        IN  /\ m_vfs' = (uri :> file) @@ m_vfs
            /\ validate(uri, file)
            /\ reply' = Reply("documentOpened", uri, "validated", <<>>)
            /\ UNCHANGED inlinerVars
            /\ UNCHANGED testVars

\* TextBuffer::modify for one change on a text of one line
Modified(text, change) ==
    SubSeq(text, 1, change.from) \o change.text \o SubSeq(text, change.to + 1, Len(text))

RECURSIVE ModifiedBy(_, _)
ModifiedBy(text, changes) ==
    IF changes = <<>> THEN text
    ELSE ModifiedBy(Modified(text, changes[1]), Tail(changes))

\* the changes of a notification: none, or one that replaces the text from some
\* position on by a piece or by nothing
ChangesOn(text) ==
    {<<>>} \cup {<<[from |-> from, to |-> Len(text), text |-> piece]>> :
                    from \in 0..Len(text), piece \in Pieces \cup {<<>>}}

\* setVersion without the test of _version.has_value()
SetVersionUnconditional(file, version) ==
    [file EXCEPT !.version = version]

\* if (_version.has_value()) file->setVersion(_version.value())
SetVersion(file, version) ==
    IF version # 0 THEN [file EXCEPT !.version = version] ELSE file

\* documentContentUpdated(_uri, _version, _changes)
documentContentUpdatedChanges ==
    \E uri \in Uris, version \in Versions \cup {0} :
        /\ IF uri \in DOMAIN m_vfs
           THEN \E changes \in ChangesOn(m_vfs[uri].content) :
                    LET text == ModifiedBy(m_vfs[uri].content, changes)
                        file == [SetVersion(m_vfs[uri], version) EXCEPT !.content = text]
                    IN  /\ text \in Contents
                        /\ m_vfs' = [m_vfs EXCEPT ![uri] = file]
                        /\ validate(uri, file)
                        /\ reply' = UpdateReply(uri, "validated", version)
           ELSE /\ reply' = UpdateReply(uri, "logError", version)
                /\ pushed' = <<>>
                /\ UNCHANGED <<m_vfs, m_sourceCodes, m_compilerStack>>
        /\ UNCHANGED inlinerVars
        /\ UNCHANGED testVars

\* documentContentUpdated(_uri, _version, _fullContentChange)
documentContentUpdatedFull ==
    \E uri \in Uris, version \in Versions \cup {0}, text \in Contents :
        /\ IF uri \in DOMAIN m_vfs
           THEN LET file == [SetVersion(m_vfs[uri], version) EXCEPT !.content = text]
                IN  /\ m_vfs' = [m_vfs EXCEPT ![uri] = file]
                    /\ validate(uri, file)
                    /\ reply' = UpdateReply(uri, "validated", version)
           ELSE /\ reply' = UpdateReply(uri, "logError", version)
                /\ pushed' = <<>>
                /\ UNCHANGED <<m_vfs, m_sourceCodes, m_compilerStack>>
        /\ UNCHANGED inlinerVars
        /\ UNCHANGED testVars

\* documentClosed only writes a log message
documentClosed ==
    \E uri \in Uris :
        /\ reply' = Reply("documentClosed", uri, "logMessage", <<>>)
        /\ pushed' = <<>>
        /\ UNCHANGED <<m_vfs, m_sourceCodes, m_compilerStack>>
        /\ UNCHANGED inlinerVars
        /\ UNCHANGED testVars

\* findASTNode and the ast() lookups of a request: the sources of the compiler
\* state that is consulted, and whether the requested source is among them
Answer(op, uri, stack) ==
    Reply(op, uri,
          IF SourceNameOf(uri) \in DOMAIN stack[1].sources THEN "answered" ELSE "sourceNotCompiled",
          stack[1].sources)

\* references compiles only while m_compilerStack is null
references ==
    \E uri \in Uris :
        /\ IF uri \in DOMAIN m_vfs
           THEN /\ IF m_compilerStack = <<>>
                   THEN compile(uri, m_vfs[uri])
                   ELSE UNCHANGED <<m_sourceCodes, m_compilerStack>>
                /\ reply' = Answer("references", uri, m_compilerStack')
           ELSE /\ reply' = Reply("references", uri, "fileNotFound", <<>>)
                /\ UNCHANGED <<m_sourceCodes, m_compilerStack>>
        /\ pushed' = <<>>
        /\ UNCHANGED m_vfs
        /\ UNCHANGED inlinerVars
        /\ UNCHANGED testVars

gotoDefinition ==
    \E uri \in Uris :
        /\ IF uri \in DOMAIN m_vfs
           THEN /\ compile(uri, m_vfs[uri])
                /\ reply' = Answer("gotoDefinition", uri, m_compilerStack')
           ELSE /\ reply' = Reply("gotoDefinition", uri, "fileNotFound", <<>>)
                /\ UNCHANGED <<m_sourceCodes, m_compilerStack>>
        /\ pushed' = <<>>
        /\ UNCHANGED m_vfs
        /\ UNCHANGED inlinerVars
        /\ UNCHANGED testVars

semanticHighlight ==
    \E uri \in Uris :
        /\ IF uri \in DOMAIN m_vfs
           THEN /\ compile(uri, m_vfs[uri])
                /\ reply' = Answer("semanticHighlight", uri, m_compilerStack')
           ELSE /\ reply' = Reply("semanticHighlight", uri, "fileNotFound", <<>>)
                /\ UNCHANGED <<m_sourceCodes, m_compilerStack>>
        /\ pushed' = <<>>
        /\ UNCHANGED m_vfs
        /\ UNCHANGED inlinerVars
        /\ UNCHANGED testVars

InitLsp ==
    /\ LspAtRest
    /\ m_items = <<>>
    /\ m_runs = 0
    /\ input = <<>>
    /\ pc = "lsp"
    /\ inlinableBlocks = <<>>
    /\ it = 1
    /\ newItems = <<>>
    /\ inlinedAt = <<>>
    /\ call = NoCall

NextLsp ==
    \/ documentOpened
    \/ documentContentUpdatedChanges
    \/ documentContentUpdatedFull
    \/ documentClosed
    \/ references
    \/ gotoDefinition
    \/ semanticHighlight

SpecLsp ==
    InitLsp /\ [][NextLsp]_vars

\* C20: language server requests are answered from a compilation of the
\* requested file. After any sequence of documentOpened and
\* documentContentUpdated notifications, a references, gotoDefinition or
\* semanticHighlight request for an opened file consults a compiler state that
\* holds exactly that file with its current content in the virtual file system.
C20_AnsweredFromRequestedFile ==
    (/\ reply.op \in {"references", "gotoDefinition", "semanticHighlight"}
     /\ reply.uri \in DOMAIN m_vfs) =>
        reply.consulted = (SourceNameOf(reply.uri) :> m_vfs[reply.uri].content)

\* the part of C20 about gotoDefinition and semanticHighlight
C20_CompilingRequests ==
    (/\ reply.op \in {"gotoDefinition", "semanticHighlight"}
     /\ reply.uri \in DOMAIN m_vfs) =>
        reply.consulted = (SourceNameOf(reply.uri) :> m_vfs[reply.uri].content)

\* C21: update of an unopened document. A documentContentUpdated notification
\* (either overload) for a URI that is not in the VFS logs an error, leaves the
\* VFS, the stored source codes and the compiler state as they are and
\* publishes no diagnostics; for a URI in the VFS it sets the version exactly
\* if one was given, leaves every other file alone, compiles that file with its
\* new content and publishes exactly one diagnostics message, for that URI.
C21_UpdateOfUnopened ==
    [][reply'.op = "documentContentUpdated" =>
          IF reply'.uri \notin DOMAIN m_vfs
          THEN /\ reply'.outcome = "logError"
               /\ m_vfs' = m_vfs
               /\ m_sourceCodes' = m_sourceCodes
               /\ m_compilerStack' = m_compilerStack
               /\ pushed' = <<>>
          ELSE /\ reply'.outcome = "validated"
               /\ DOMAIN m_vfs' = DOMAIN m_vfs
               /\ \A other \in DOMAIN m_vfs \ {reply'.uri} : m_vfs'[other] = m_vfs[other]
               /\ m_vfs'[reply'.uri].version =
                     (IF reply'.version \in Versions THEN reply'.version
                      ELSE m_vfs[reply'.uri].version)
               /\ m_sourceCodes' = (SubSeq(reply'.uri, 8, Len(reply'.uri)) :> m_vfs'[reply'.uri].content)
               /\ m_compilerStack' = <<[sources |-> m_sourceCodes']>>
               /\ Len(pushed') = 1
               /\ pushed'[1].uri = reply'.uri]_vars

\* an update for a URI that is not opened arrived while another file was open
\* and compiled
C21_Witness ==
    /\ reply.op = "documentContentUpdated"
    /\ reply.outcome = "logError"
    /\ reply.uri \notin DOMAIN m_vfs
    /\ m_vfs # <<>>
    /\ m_compilerStack # <<>>
    /\ pushed = <<>>

\* the positions (0-based) at which pattern occurs in text
Occurrences(text, pattern) ==
    {pos \in 0..(Len(text) - Len(pattern)) : SubSeq(text, pos + 1, pos + Len(pattern)) = pattern}

\* the entries of a diagnostics list with the given severity
WithSeverity(diagnostics, severity) ==
    {i \in 1..Len(diagnostics) : diagnostics[i].severity = severity}

\* the diagnostics of the given severity stand one to one at the given positions
OnePerOccurrence(diagnostics, severity, positions) ==
    /\ Cardinality(WithSeverity(diagnostics, severity)) = Cardinality(positions)
    /\ {diagnostics[i].startColumn : i \in WithSeverity(diagnostics, severity)} = positions

\* C22: marker diagnostics of validate. Every published diagnostics message
\* holds exactly one Error diagnostic per occurrence of FIXME in the file's
\* content, at that occurrence, and exactly one Hint diagnostic per occurrence
\* of TODO, at that occurrence.
C22_MarkerDiagnostics ==
    \A k \in 1..Len(pushed) :
        LET text == m_vfs[pushed[k].uri].content
            diagnostics == pushed[k].diagnostics
        IN  /\ OnePerOccurrence(diagnostics, "Error", Occurrences(text, Fixme))
            /\ OnePerOccurrence(diagnostics, "Hint", Occurrences(text, Todo))

\* the part of C22 about FIXME
C22_FixmeDiagnostics ==
    \A k \in 1..Len(pushed) :
        OnePerOccurrence(pushed[k].diagnostics, "Error",
                         Occurrences(m_vfs[pushed[k].uri].content, Fixme))

(***************************************************************************)
(* The SMTChecker test: contract C with function f(S memory s1, S memory   *)
(* s2).  Memory is a map from addresses to structs; s1 and s2 are          *)
(* addresses.  A failing assert is recorded with its source location and   *)
(* ends the call.  uint is modelled with UintBits bits and wraps.          *)
(***************************************************************************)
\* width of uint in the model
UintBits ==
    3

RECURSIVE Pow2(_)
Pow2(n) ==
    IF n = 0 THEN 1 ELSE 2 * Pow2(n - 1)

Uints ==
    0..(Pow2(UintBits) - 1)

\* struct S { uint x; uint[] a; }
Structs ==
    [x : Uints, a : SeqsUpTo({0, 1}, 1)]

\* the value delete leaves behind without the reset of the member x
DeletedKeepingX(struct) ==
    [struct EXCEPT !.a = <<>>]

\* delete: the initial value of the type, every member reset
Deleted(struct) ==
    [x |-> 0, a |-> <<>>]

\* ++ on a uint
Incremented(value) ==
    (value + 1) % Pow2(UintBits)

\* source locations (start and end offset) of the two assert statements
FirstAssertion ==
    [start |-> 204, end |-> 221]

SecondAssertion ==
    [start |-> 225, end |-> 245]

\* the expectation of the test: Warning 6328 (assertion violation) at 225-245
ExpectedWarnings ==
    {[start |-> 225, end |-> 245]}

\* f is entered with two structs in memory; the two parameters point to
\* different structs, or to the same one when f is called with one argument twice
InitTest ==
    /\ \E first \in Structs, second \in Structs, s2 \in {1, 2} :
          smt = [pc |-> "delete", s1 |-> 1, s2 |-> s2,
                 memory |-> <<first, IF s2 = 1 THEN first ELSE second>>, reported |-> {}]
    /\ m_vfs = <<>>
    /\ m_sourceCodes = <<>>
    /\ m_compilerStack = <<>>
    /\ pushed = NoDiagnostics
    /\ reply = NoReply
    /\ m_items = <<>>
    /\ m_runs = 0
    /\ input = <<>>
    /\ pc = "test"
    /\ inlinableBlocks = <<>>
    /\ it = 1
    /\ newItems = <<>>
    /\ inlinedAt = <<>>
    /\ call = NoCall

TestFrame ==
    /\ UNCHANGED inlinerVars
    /\ UNCHANGED lspVars

\* delete s1: s1 points to a new struct holding the initial value
DeleteS1 ==
    /\ smt.pc = "delete"
    /\ smt' = [smt EXCEPT !.pc = "postIncrement",
                          !.memory = Append(@, Deleted(smt.memory[smt.s1])),
                          !.s1 = Len(smt.memory) + 1]
    /\ TestFrame

\* s1.x++
PostIncrement ==
    /\ smt.pc = "postIncrement"
    /\ smt' = [smt EXCEPT !.pc = "preIncrement",
                          !.memory[smt.s1].x = Incremented(@)]
    /\ TestFrame

\* ++s1.x
PreIncrement ==
    /\ smt.pc = "preIncrement"
    /\ smt' = [smt EXCEPT !.pc = "firstAssert",
                          !.memory[smt.s1].x = Incremented(@)]
    /\ TestFrame

\* assert(condition) at location: a false condition is an assertion violation
AssertThen(condition, location, next) ==
    IF condition
    THEN smt' = [smt EXCEPT !.pc = next]
    ELSE smt' = [smt EXCEPT !.pc = "panic", !.reported = @ \cup {location}]

\* assert(s1.x == 2)
AssertFirst ==
    /\ smt.pc = "firstAssert"
    /\ AssertThen(smt.memory[smt.s1].x = 2, FirstAssertion, "secondAssert")
    /\ TestFrame

\* assert(s1.x == s2.x)
AssertSecond ==
    /\ smt.pc = "secondAssert"
    /\ AssertThen(smt.memory[smt.s1].x = smt.memory[smt.s2].x, SecondAssertion, "returned")
    /\ TestFrame

NextTest ==
    \/ DeleteS1
    \/ PostIncrement
    \/ PreIncrement
    \/ AssertFirst
    \/ AssertSecond

SpecTest ==
    InitTest /\ [][NextTest]_vars

\* C23: the SMTChecker test expectation for delete on a memory struct. In every
\* call of f, when the first assertion is reached s1.x is 2, so it is never
\* violated; the struct s2 points to is what it was on entry; and the only
\* assertion violation that any call produces is the one the test expects, at
\* the second assertion.
C23_DeleteMemoryStruct ==
    /\ [](smt.pc = "firstAssert" => smt.memory[smt.s1].x = 2)
    /\ [](FirstAssertion \notin smt.reported)
    /\ [](smt.reported \subseteq ExpectedWarnings)
    /\ [][smt'.memory[smt.s2] = smt.memory[smt.s2] /\ smt'.s2 = smt.s2]_vars
    /\ [](ExpectedWarnings = {SecondAssertion})

\* a call of f has passed the first assertion and failed the second one: the
\* violation the test expects
C23_Witness ==
    /\ smt.pc = "panic"
    /\ smt.reported = ExpectedWarnings
    /\ smt.memory[smt.s1].x = 2
    /\ smt.memory[smt.s2].x # 2

====
